---- MODULE Spec2Model ----
(***************************************************************************)
(* Storage-initializer encoding of sway-core                               *)
(* (sway-core/src/ir_generation/storage.rs).                               *)
(*                                                                         *)
(* The functions of storage.rs are pure.  Each is an operator computed the *)
(* way the Rust code computes it; a call is one action that draws its      *)
(* arguments from bounded sets and records the outcome in `ret`.           *)
(*                                                                         *)
(* Values                                                                  *)
(*   byte        0..255                                                    *)
(*   Bytes8      sequence of 8 bytes, Bytes32 sequence of 32 bytes         *)
(*   string      sequence of one-character strings                         *)
(*   Type        [tag, arg]   arg = bit width / string length / aggregate  *)
(*   Constant    [ty, tag, b, n, bytes, elems]                             *)
(*   outcome     [st, val]    st = "ok" or the kind of panic               *)
(*                                                                         *)
(* SpecCalls follows the calls the two encoders make of themselves, one    *)
(* call per step, in `frames`.  SpecDocument is the token index of a       *)
(* TextDocument of sway-lsp (sway-lsp/src/core/document.rs).               *)
(***************************************************************************)
EXTENDS Integers, Sequences, FiniteSets, TLC

VARIABLES pc, fn, constant, ty, ix, indices, x, y, ret,
          frames,
          content, tokens, lines, values, token_map, parsed

vars == <<pc, fn, constant, ty, ix, indices, x, y, ret,
          frames, content, tokens, lines, values, token_map, parsed>>

----------------------------------------------------------------------------
(* Bounds of the explored inputs *)

\* longest string constant, in bytes
MaxStrLen == 40
\* longest path of subfield indices handed to get_storage_key directly
MaxPathLen == 2
\* largest offset handed to add_to_b256 directly is 256 * MaxOffsetHi + 255
MaxOffsetHi == 2
\* deepest call of an encoder from itself that is followed
MaxCallDepth == 6
\* most tokens a parsed text has
MaxTokens == 2

----------------------------------------------------------------------------
(* Outcomes: a returned value or a panic *)

Ok(v) == [st |-> "ok", val |-> v]

Panic(kind) == [st |-> kind, val |-> <<>>]

Min(a, b) == IF a < b THEN a ELSE b

Max2(a, b) == IF a > b THEN a ELSE b

RECURSIVE Repeat(_, _)
Repeat(v, n) == IF n <= 0 THEN <<>> ELSE <<v>> \o Repeat(v, n - 1)

RECURSIVE Flatten(_)
Flatten(ss) == IF ss = <<>> THEN <<>> ELSE Head(ss) \o Flatten(Tail(ss))

----------------------------------------------------------------------------
(* Types, constants and the aggregate context *)

TUnit == [tag |-> "Unit", arg |-> 0]
TBool == [tag |-> "Bool", arg |-> 0]
TUint(w) == [tag |-> "Uint", arg |-> w]
TB256 == [tag |-> "B256", arg |-> 0]
TString(n) == [tag |-> "String", arg |-> n]
TArray(a) == [tag |-> "Array", arg |-> a]
TStruct(a) == [tag |-> "Struct", arg |-> a]
TUnion(a) == [tag |-> "Union", arg |-> a]

FieldTypes(tys) == [kind |-> "FieldTypes", tys |-> tys, cnt |-> 0]
ArrayType(el, cnt) == [kind |-> "ArrayType", tys |-> <<el>>, cnt |-> cnt]

\* context.aggregates; aggregate a is entry a + 1
Aggregates ==
    << FieldTypes(<<TBool, TUint(64)>>),                                \* 0
       FieldTypes(<<TUint(64), TB256>>),                                \* 1
       FieldTypes(<<TStruct(0), TB256, TUnit>>),                        \* 2
       ArrayType(TUint(64), 2),                                         \* 3
       FieldTypes(<<TUint(64), TArray(3)>>),                            \* 4
       FieldTypes(<<TUnit, TStruct(6), TArray(3), TString(5),
                    TString(3), TStruct(0), TStruct(4), TUnion(1)>>),   \* 5
       FieldTypes(<<TUint(64), TUint(64), TUint(64), TUint(64),
                    TUint(64)>>),                                       \* 6
       FieldTypes(<<TUint(64), TUnion(1)>>),                            \* 7
       FieldTypes(<<TBool, TUnit>>) >>                                  \* 8

aggregates(a) == Aggregates[a + 1]

CUndef(t) ==
    [ty |-> t, tag |-> "Undef", b |-> FALSE, n |-> 0, bytes |-> <<>>, elems |-> <<>>]
CUnit ==
    [ty |-> TUnit, tag |-> "Unit", b |-> FALSE, n |-> 0, bytes |-> <<>>, elems |-> <<>>]
CBool(v) ==
    [ty |-> TBool, tag |-> "Bool", b |-> v, n |-> 0, bytes |-> <<>>, elems |-> <<>>]
CUint(w, v) ==
    [ty |-> TUint(w), tag |-> "Uint", b |-> FALSE, n |-> v, bytes |-> <<>>, elems |-> <<>>]
CB256(bs) ==
    [ty |-> TB256, tag |-> "B256", b |-> FALSE, n |-> 0, bytes |-> bs, elems |-> <<>>]
CString(bs) ==
    [ty |-> TString(Len(bs)), tag |-> "String", b |-> FALSE, n |-> 0, bytes |-> bs,
     elems |-> <<>>]
CArray(a, es) ==
    [ty |-> TArray(a), tag |-> "Array", b |-> FALSE, n |-> 0, bytes |-> <<>>, elems |-> es]
CStruct(a, es) ==
    [ty |-> TStruct(a), tag |-> "Struct", b |-> FALSE, n |-> 0, bytes |-> <<>>, elems |-> es]
\* the same payload with another recorded type (constant.ty)
Retyped(c, t) == [c EXCEPT !.ty = t]

----------------------------------------------------------------------------
(* get_storage_key *)

STORAGE_DOMAIN_SEPARATOR == <<"s", "t", "o", "r", "a", "g", "e", "_">>

DigitChar(d) == <<"0", "1", "2", "3", "4", "5", "6", "7", "8", "9">>[d + 1]

\* format!("{}", n) of an unsigned integer
RECURSIVE to_string(_)
to_string(n) ==
    IF n < 10 THEN <<DigitChar(n)>>
    ELSE to_string(n \div 10) \o <<DigitChar(n % 10)>>

\* the ASCII code of a character of a key pre-image
Ascii(c) ==
    CASE c = "_" -> 95
      [] c = "0" -> 48 [] c = "1" -> 49 [] c = "2" -> 50 [] c = "3" -> 51
      [] c = "4" -> 52 [] c = "5" -> 53 [] c = "6" -> 54 [] c = "7" -> 55
      [] c = "8" -> 56 [] c = "9" -> 57
      [] c = "a" -> 97 [] c = "e" -> 101 [] c = "g" -> 103 [] c = "o" -> 111
      [] c = "r" -> 114 [] c = "s" -> 115 [] c = "t" -> 116

\* Hasher::hash (SHA-256 of fuel_crypto) as a collision-free map to 32 bytes
\* whose digests lie at least 256 apart: the digest of a pre-image of at most
\* 31 characters is its ASCII bytes between leading zero bytes and one final
\* zero byte.  The pre-images explored are at most 31 characters.
Hash(s) ==
    [i \in 1..32 |->
        IF i <= 31 - Len(s) \/ i = 32 THEN 0
        ELSE Ascii(s[i - (31 - Len(s))])]

\* indices.iter().fold(init, |acc, i| format!("{}_{}", acc, i))
RECURSIVE fold_indices(_, _)
fold_indices(acc, idx) ==
    IF idx = <<>> THEN acc
    ELSE fold_indices(acc \o <<"_">> \o to_string(Head(idx)), Tail(idx))

\* the separator written after each index instead of before it
RECURSIVE fold_indices_sep_after(_, _)
fold_indices_sep_after(acc, idx) ==
    IF idx = <<>> THEN acc
    ELSE fold_indices_sep_after(acc \o to_string(Head(idx)) \o <<"_">>, Tail(idx))

\* the indices chained without any separator
RECURSIVE fold_indices_no_sep(_, _)
fold_indices_no_sep(acc, idx) ==
    IF idx = <<>> THEN acc
    ELSE fold_indices_no_sep(acc \o to_string(Head(idx)), Tail(idx))

get_storage_key_no_sep(i, idx) ==
    Hash(fold_indices_no_sep(STORAGE_DOMAIN_SEPARATOR \o to_string(i), idx))

get_storage_key_sep_after(i, idx) ==
    Hash(fold_indices_sep_after(STORAGE_DOMAIN_SEPARATOR \o to_string(i), idx))

get_storage_key(i, idx) ==
    Hash(fold_indices(STORAGE_DOMAIN_SEPARATOR \o to_string(i), idx))

----------------------------------------------------------------------------
(* add_to_b256 *)

\* u64::to_be_bytes: byte k (1..8) of n, most significant first
RECURSIVE be_byte(_, _)
be_byte(n, k) == IF k = 8 THEN n % 256 ELSE be_byte(n \div 256, k + 1)

to_be_bytes(n) == [k \in 1..8 |-> be_byte(n, k)]

\* the eight bytes of the offset in the reverse order
U256_from_u64_reversed(n) ==
    [i \in 1..32 |-> IF i <= 24 THEN 0 ELSE be_byte(n, 33 - i)]

\* U256::from(u64): the offset as 32 big-endian bytes
U256_from_u64(n) == [i \in 1..32 |-> IF i <= 24 THEN 0 ELSE be_byte(n, i - 24)]

\* carry out of byte i of the addition a + b (bytes i..32 added)
RECURSIVE carry_out(_, _, _)
carry_out(a, b, i) ==
    IF i > 32 THEN 0
    ELSE (a[i] + b[i] + carry_out(a, b, i + 1)) \div 256

\* U256::overflowing_add, limb arithmetic done byte by byte
overflowing_add(a, b) ==
    [sum |-> [i \in 1..32 |-> (a[i] + b[i] + carry_out(a, b, i + 1)) % 256],
     overflow |-> carry_out(a, b, 1) = 1]

\* `x + y` of construct_uint!: impl Add panics when the addition overflows
add_to_b256(k, off) ==
    LET r == overflowing_add(k, U256_from_u64(off))
    IN  IF r.overflow THEN Panic("overflow") ELSE Ok(r.sum)

----------------------------------------------------------------------------
(* ir_type_size_in_bytes (crate::asm_generation::from_ir) *)

size_bytes_round_up_to_word_alignment(n) == ((n + 7) \div 8) * 8

RECURSIVE ir_type_size_in_bytes(_)
ir_type_size_in_bytes(t) ==
    CASE t.tag \in {"Unit", "Bool", "Uint"} -> 8
      [] t.tag = "B256" -> 32
      [] t.tag = "String" -> size_bytes_round_up_to_word_alignment(t.arg)
      [] t.tag = "Array" ->
            aggregates(t.arg).cnt * ir_type_size_in_bytes(aggregates(t.arg).tys[1])
      [] t.tag = "Struct" ->
            LET tys == aggregates(t.arg).tys
                sum[k \in 0..Len(tys)] ==
                    IF k = 0 THEN 0 ELSE sum[k - 1] + ir_type_size_in_bytes(tys[k])
            IN  sum[Len(tys)]
      [] t.tag = "Union" ->
            LET tys == aggregates(t.arg).tys
                max[k \in 0..Len(tys)] ==
                    IF k = 0 THEN 0
                    ELSE LET sz == ir_type_size_in_bytes(tys[k])
                         IN  IF sz > max[k - 1] THEN sz ELSE max[k - 1]
            IN  max[Len(tys)]

----------------------------------------------------------------------------
(* serialize_to_words *)

ZeroWord == [k \in 1..8 |-> 0]

\* the outcome of evaluating parts[1], parts[2], ... in order and chaining
\* their values: the first panic ends the evaluation
Collect(parts) ==
    LET bad == {k \in 1..Len(parts) : parts[k].st # "ok"}
    IN  IF bad # {} THEN parts[CHOOSE k \in bad : \A j \in bad : k <= j]
        ELSE Ok(Flatten([k \in 1..Len(parts) |-> parts[k].val]))

\* (Type::String(_), ConstantValue::String(s))
string_to_words(bytes) ==
    LET s == bytes \o Repeat(0, ((Len(bytes) + 3) \div 4) * 4 - Len(bytes))
    IN  IF Len(s) % 8 # 0 THEN Panic("assert")
        ELSE Ok([i \in 1..(Len(s) \div 8) |-> [j \in 1..8 |-> s[8 * (i - 1) + j]]])

\* the arm of `match (&ty, &constant.value)` in serialize_to_words that is taken
words_arm_no_undef(t, c) ==
    IF t.tag = "Unit" /\ c.tag = "Unit" THEN "Unit"
    ELSE IF t.tag = "Bool" /\ c.tag = "Bool" THEN "Bool"
    ELSE IF t.tag = "Uint" /\ c.tag = "Uint" THEN "Uint"
    ELSE IF t.tag = "B256" /\ c.tag = "B256" THEN "B256"
    ELSE IF t.tag = "String" /\ c.tag = "String" THEN "String"
    ELSE IF t.tag = "Array" /\ c.tag = "Array" THEN "Array"
    ELSE IF t.tag = "Struct" /\ c.tag = "Struct" THEN "Struct"
    ELSE IF t.tag = "Union" THEN "Union"
    ELSE "_"

words_arm(t, c) ==
    IF c.tag = "Undef" THEN "Undef"
    ELSE IF t.tag = "Unit" /\ c.tag = "Unit" THEN "Unit"
    ELSE IF t.tag = "Bool" /\ c.tag = "Bool" THEN "Bool"
    ELSE IF t.tag = "Uint" /\ c.tag = "Uint" THEN "Uint"
    ELSE IF t.tag = "B256" /\ c.tag = "B256" THEN "B256"
    ELSE IF t.tag = "String" /\ c.tag = "String" THEN "String"
    ELSE IF t.tag = "Array" /\ c.tag = "Array" THEN "Array"
    ELSE IF t.tag = "Struct" /\ c.tag = "Struct" THEN "Struct"
    ELSE IF t.tag = "Union" THEN "Union"
    ELSE "_"

\* the padding of a union chained with the words of its payload
union_words_right_padded(padding_size_in_words, words) ==
    words \o Repeat(ZeroWord, padding_size_in_words)

union_words(padding_size_in_words, words) ==
    Repeat(ZeroWord, padding_size_in_words) \o words

\* assert!(value_size_in_words >= constant_size_in_words)
size_assertion_skipped(value_size_in_words, constant_size_in_words) == TRUE

size_assertion(value_size_in_words, constant_size_in_words) ==
    value_size_in_words >= constant_size_in_words

RECURSIVE serialize_to_words(_, _)
serialize_to_words(c, t) ==
    LET arm == words_arm(t, c)
    IN  CASE arm = "Undef" -> Ok(<<>>)
          [] arm = "Unit" -> Ok(<<ZeroWord>>)
          [] arm = "Bool" -> Ok(<<Repeat(0, 7) \o <<IF c.b THEN 1 ELSE 0>> >>)
          [] arm = "Uint" -> Ok(<<to_be_bytes(c.n)>>)
          [] arm = "B256" ->
                Ok([i \in 1..4 |-> [j \in 1..8 |-> c.bytes[8 * (i - 1) + j]]])
          [] arm = "String" -> string_to_words(c.bytes)
          [] arm = "Array" -> Panic("unimplemented")
          [] arm = "Struct" ->
                IF aggregates(t.arg).kind # "FieldTypes" THEN Panic("unreachable")
                ELSE LET tys == aggregates(t.arg).tys
                         n == Min(Len(c.elems), Len(tys))
                     IN  Collect([k \in 1..n |->
                                    serialize_to_words(c.elems[k], tys[k])])
          [] arm = "Union" ->
                LET value_size_in_words == ir_type_size_in_bytes(t) \div 8
                    constant_size_in_words == ir_type_size_in_bytes(c.ty) \div 8
                    padding_size_in_words ==
                        value_size_in_words - constant_size_in_words
                IN  IF ~size_assertion(value_size_in_words, constant_size_in_words)
                    THEN Panic("assert")
                    \* a constant whose own type is a Union: the call below is
                    \* the call being made, with the same arguments, without end
                    ELSE IF c.ty.tag = "Union" THEN Panic("stack_overflow")
                    ELSE LET words == serialize_to_words(c, c.ty)
                         IN  IF words.st # "ok" THEN words
                             ELSE Ok(union_words(padding_size_in_words, words.val))
          [] OTHER -> Ok(<<>>)

----------------------------------------------------------------------------
(* serialize_to_storage_initializers *)

StorageInitializer(slot, value) == [slot |-> slot, value |-> value]

\* the arm of `match (&ty, &constant.value)` that is taken
initializers_arm_no_array(t, c) ==
    IF c.tag = "Undef" THEN "Undef"
    ELSE IF t.tag = "Unit" /\ c.tag = "Unit" THEN "Unit"
    ELSE IF t.tag = "Bool" /\ c.tag = "Bool" THEN "Bool"
    ELSE IF t.tag = "Uint" /\ c.tag = "Uint" THEN "Uint"
    ELSE IF t.tag = "B256" /\ c.tag = "B256" THEN "B256"
    ELSE IF t.tag = "Struct" /\ c.tag = "Struct" THEN "Struct"
    ELSE IF t.tag = "Union" \/ t.tag = "String" THEN "UnionOrString"
    ELSE "_"

\* (Type::Array(_), _) in place of (Type::Array(_), ConstantValue::Array(_))
initializers_arm_array_any(t, c) ==
    IF c.tag = "Undef" THEN "Undef"
    ELSE IF t.tag = "Unit" /\ c.tag = "Unit" THEN "Unit"
    ELSE IF t.tag = "Bool" /\ c.tag = "Bool" THEN "Bool"
    ELSE IF t.tag = "Uint" /\ c.tag = "Uint" THEN "Uint"
    ELSE IF t.tag = "B256" /\ c.tag = "B256" THEN "B256"
    ELSE IF t.tag = "Array" THEN "Array"
    ELSE IF t.tag = "Struct" /\ c.tag = "Struct" THEN "Struct"
    ELSE IF t.tag = "Union" \/ t.tag = "String" THEN "UnionOrString"
    ELSE "_"

initializers_arm(t, c) ==
    IF c.tag = "Undef" THEN "Undef"
    ELSE IF t.tag = "Unit" /\ c.tag = "Unit" THEN "Unit"
    ELSE IF t.tag = "Bool" /\ c.tag = "Bool" THEN "Bool"
    ELSE IF t.tag = "Uint" /\ c.tag = "Uint" THEN "Uint"
    ELSE IF t.tag = "B256" /\ c.tag = "B256" THEN "B256"
    ELSE IF t.tag = "Array" /\ c.tag = "Array" THEN "Array"
    ELSE IF t.tag = "Struct" /\ c.tag = "Struct" THEN "Struct"
    ELSE IF t.tag = "Union" \/ t.tag = "String" THEN "UnionOrString"
    ELSE "_"

\* [0; 31] chained with the byte of the boolean
bool_slot_value_leading(b) == <<IF b THEN 1 ELSE 0>> \o Repeat(0, 31)

bool_slot_value(b) == Repeat(0, 31) \o <<IF b THEN 1 ELSE 0>>

\* [0; 24] chained with n.to_be_bytes()
uint_slot_value_right_padded(n) == to_be_bytes(n) \o Repeat(0, 24)

uint_slot_value(n) == Repeat(0, 24) \o to_be_bytes(n)

\* the indices of field i (counted from 0) of a struct at idx
field_indices_one_based(idx, i) == Append(idx, i + 1)

field_indices(idx, i) == Append(idx, i)

\* packed[4 * i + 0 .. 4 * i + 3] as one Bytes32, i counted from 0
slot_value_next_word(packed, i) ==
    Flatten([j \in 1..4 |-> packed[IF 4 * i + j + 1 <= Len(packed)
                                   THEN 4 * i + j + 1 ELSE 4 * i + j]])

slot_value(packed, i) == Flatten([j \in 1..4 |-> packed[4 * i + j]])

\* (Type::Union(_), _) | (Type::String(_), _)
packed_initializers(c, t, i, idx) ==
    LET words == serialize_to_words(c, t)
        packed == words.val
                    \o Repeat(ZeroWord,
                              ((Len(words.val) + 3) \div 4) * 4 - Len(words.val))
        nkeys == (ir_type_size_in_bytes(t) + 31) \div 32
        nvals == Len(packed) \div 4
        n == Min(nkeys, nvals)
        \* Zip::next asks the key iterator first: one key more than there
        \* are values is computed when the keys are the longer side
        keys == [k \in 1..Min(nkeys, nvals + 1) |->
                    add_to_b256(get_storage_key(i, idx), k - 1)]
        bad == {k \in 1..Len(keys) : keys[k].st # "ok"}
    IN  IF words.st # "ok" THEN words
        ELSE IF Len(packed) % 4 # 0 THEN Panic("assert")
        ELSE IF bad # {} THEN Panic("overflow")
        ELSE Ok([k \in 1..n |->
                    StorageInitializer(keys[k].val, slot_value(packed, k - 1))])

RECURSIVE serialize_to_storage_initializers(_, _, _, _)
serialize_to_storage_initializers(c, t, i, idx) ==
    LET arm == initializers_arm(t, c)
    IN  CASE arm = "Undef" -> Ok(<<>>)
          [] arm = "Unit" ->
                Ok(<<StorageInitializer(get_storage_key(i, idx), Repeat(0, 32))>>)
          [] arm = "Bool" ->
                Ok(<<StorageInitializer(get_storage_key(i, idx),
                                        bool_slot_value(c.b))>>)
          [] arm = "Uint" ->
                Ok(<<StorageInitializer(get_storage_key(i, idx),
                                        uint_slot_value(c.n))>>)
          [] arm = "B256" ->
                Ok(<<StorageInitializer(get_storage_key(i, idx), c.bytes)>>)
          [] arm = "Array" -> Panic("unimplemented")
          [] arm = "Struct" ->
                IF aggregates(t.arg).kind # "FieldTypes" THEN Panic("unreachable")
                ELSE LET tys == aggregates(t.arg).tys
                         n == Min(Len(c.elems), Len(tys))
                     IN  Collect([k \in 1..n |->
                            serialize_to_storage_initializers(
                                c.elems[k], tys[k], i, field_indices(idx, k - 1))])
          [] arm = "UnionOrString" -> packed_initializers(c, t, i, idx)
          [] OTHER -> Ok(<<>>)

----------------------------------------------------------------------------
(* Inputs *)

StateIndexes == {0, 1, 11}

PathElems == {0, 1, 10}

RECURSIVE PathsOfLen(_)
PathsOfLen(n) ==
    IF n = 0 THEN {<<>>}
    ELSE {Append(p, e) : p \in PathsOfLen(n - 1), e \in PathElems}

Paths == UNION {PathsOfLen(n) : n \in 0..MaxPathLen}

FillBytes32(hi, lo) == [i \in 1..32 |-> IF i = 32 THEN lo ELSE hi]

Keys ==
    {FillBytes32(0, 0), FillBytes32(0, 255), FillBytes32(255, 0),
     FillBytes32(255, 254), FillBytes32(255, 255), FillBytes32(1, 200),
     [i \in 1..32 |-> IF i >= 31 THEN 255 ELSE 0],
     get_storage_key(1, <<0>>)}

Offsets == {256 * h + l : h \in 0..MaxOffsetHi, l \in {0, 1, 2, 255}}

NoConstant == CUndef(TUnit)

\* string payload of L non-zero bytes
StrBytes(L) == [k \in 1..L |-> ((k * 7) % 255) + 1]

B256Bytes == [k \in 1..32 |-> 8 * k - 1]

U64(v) == CUint(64, v)

S0(a, b) == CStruct(0, <<a, b>>)

S6(a, b) == CStruct(6, <<a, b, U64(3), U64(4), U64(5)>>)

A3 == CArray(3, <<U64(1), U64(2)>>)

In(c, t) == [c |-> c, t |-> t]

\* constants with their own type, an Undef of every kind of type included
TypedInputs ==
    << In(CUnit, TUnit), In(CBool(TRUE), TBool), In(CBool(FALSE), TBool),
       In(U64(0), TUint(64)), In(U64(1), TUint(64)), In(U64(258), TUint(64)),
       In(CUint(8, 255), TUint(8)), In(CUint(32, 65536), TUint(32)),
       In(U64(2147483647), TUint(64)), In(CB256(B256Bytes), TB256),
       In(CUndef(TUnit), TUnit), In(CUndef(TBool), TBool),
       In(CUndef(TUint(64)), TUint(64)), In(CUndef(TB256), TB256),
       In(CUndef(TString(5)), TString(5)), In(CUndef(TArray(3)), TArray(3)),
       In(CUndef(TStruct(0)), TStruct(0)), In(CUndef(TUnion(1)), TUnion(1)),
       In(CUndef(TUnion(5)), TUnion(5)),
       In(A3, TArray(3)),
       In(S0(CBool(TRUE), U64(7)), TStruct(0)),
       In(S0(CUndef(TBool), U64(7)), TStruct(0)),
       In(S0(CBool(FALSE), CUndef(TUint(64))), TStruct(0)),
       In(CStruct(2, <<S0(CBool(TRUE), U64(7)), CB256(B256Bytes), CUnit>>), TStruct(2)),
       In(CStruct(2, <<S0(CUndef(TBool), U64(9)), CB256(B256Bytes), CUnit>>),
          TStruct(2)),
       In(CStruct(4, <<U64(1), A3>>), TStruct(4)),
       In(CStruct(4, <<U64(1), CUndef(TArray(3))>>), TStruct(4)),
       In(S6(U64(1), U64(2)), TStruct(6)),
       In(CStruct(7, <<U64(1), CB256(B256Bytes)>>), TStruct(7)),
       In(CStruct(7, <<U64(0), U64(9)>>), TStruct(7)),
       In(CStruct(7, <<U64(0), CUndef(TUint(64))>>), TStruct(7)) >>

\* a union type with a constant of one of its variants
UnionInputs ==
    << In(U64(9), TUnion(1)), In(CB256(B256Bytes), TUnion(1)),
       In(CUndef(TUint(64)), TUnion(1)), In(CUndef(TB256), TUnion(1)),
       In(CUnit, TUnion(5)), In(S6(U64(1), U64(2)), TUnion(5)),
       In(S6(CUndef(TUint(64)), U64(2)), TUnion(5)),
       In(S6(CUndef(TUint(64)), CUndef(TUint(64))), TUnion(5)),
       In(A3, TUnion(5)), In(CUndef(TArray(3)), TUnion(5)),
       In(CString(StrBytes(5)), TUnion(5)), In(CString(StrBytes(3)), TUnion(5)),
       In(S0(CBool(TRUE), U64(7)), TUnion(5)),
       In(CStruct(4, <<U64(1), A3>>), TUnion(5)),
       In(CBool(TRUE), TUnion(8)), In(CUnit, TUnion(8)) >>

\* a constant wider than the union, a constant whose own type is a union,
\* and constants of another tag than the type
OddInputs ==
    << In(CB256(B256Bytes), TUnion(8)), In(S0(CBool(TRUE), U64(7)), TUnion(8)),
       In(Retyped(U64(9), TUnion(1)), TUnion(5)),
       In(Retyped(U64(9), TUnion(1)), TUnion(1)),
       In(U64(1), TBool), In(CBool(TRUE), TUint(64)), In(CBool(TRUE), TString(5)),
       In(CBool(TRUE), TArray(3)), In(U64(1), TStruct(0)),
       In(S0(CBool(TRUE), U64(7)), TUint(64)), In(CUnit, TB256),
       In(A3, TStruct(4)), In(CString(StrBytes(5)), TArray(3)),
       In(U64(1), TString(37)), In(CUndef(TB256), TUnion(8)),
       In(CUndef(TStruct(0)), TUnion(8)) >>

StringInputs == [L \in 1..MaxStrLen |-> In(CString(StrBytes(L)), TString(L))]

SerInputs == TypedInputs \o UnionInputs \o OddInputs \o StringInputs

SerPaths == {<<>>, <<1>>, <<10, 0>>}

SerIndexes == {0, 11}

----------------------------------------------------------------------------
(* The calls: the arguments are drawn at Init, the call is one step *)

\* a HashMap with no entry
EmptyMap == <<>>

\* no TextDocument is at hand
NoDocument ==
    /\ content = [ok |-> FALSE, tokens |-> <<>>]
    /\ tokens = <<>>
    /\ lines = EmptyMap
    /\ values = EmptyMap
    /\ token_map = {}
    /\ parsed = "none"

Init ==
    /\ pc = "call"
    /\ ret = Ok(<<>>)
    /\ frames = <<>>
    /\ NoDocument
    /\ \/ /\ fn = "get_storage_key"
          /\ ix \in StateIndexes
          /\ indices \in Paths
          /\ constant = NoConstant /\ ty = TUnit /\ x = FillBytes32(0, 0) /\ y = 0
       \/ /\ fn = "add_to_b256"
          /\ x \in Keys
          /\ y \in Offsets
          /\ constant = NoConstant /\ ty = TUnit /\ ix = 0 /\ indices = <<>>
       \/ /\ fn = "serialize_to_words"
          /\ \E k \in 1..Len(SerInputs) :
                constant = SerInputs[k].c /\ ty = SerInputs[k].t
          /\ ix = 0 /\ indices = <<>> /\ x = FillBytes32(0, 0) /\ y = 0
       \/ /\ fn = "serialize_to_storage_initializers"
          /\ \E k \in 1..Len(SerInputs) :
                constant = SerInputs[k].c /\ ty = SerInputs[k].t
          /\ ix \in SerIndexes
          /\ indices \in SerPaths
          /\ x = FillBytes32(0, 0) /\ y = 0

CallGetStorageKey ==
    /\ pc = "call" /\ fn = "get_storage_key"
    /\ ret' = Ok(get_storage_key(ix, indices))
    /\ pc' = "done"
    /\ UNCHANGED <<fn, constant, ty, ix, indices, x, y>>
    /\ UNCHANGED <<frames, content, tokens, lines, values, token_map, parsed>>

CallAddToB256 ==
    /\ pc = "call" /\ fn = "add_to_b256"
    /\ ret' = add_to_b256(x, y)
    /\ pc' = "done"
    /\ UNCHANGED <<fn, constant, ty, ix, indices, x, y>>
    /\ UNCHANGED <<frames, content, tokens, lines, values, token_map, parsed>>

CallSerializeToWords ==
    /\ pc = "call" /\ fn = "serialize_to_words"
    /\ ret' = serialize_to_words(constant, ty)
    /\ pc' = "done"
    /\ UNCHANGED <<fn, constant, ty, ix, indices, x, y>>
    /\ UNCHANGED <<frames, content, tokens, lines, values, token_map, parsed>>

CallSerializeToStorageInitializers ==
    /\ pc = "call" /\ fn = "serialize_to_storage_initializers"
    /\ ret' = serialize_to_storage_initializers(constant, ty, ix, indices)
    /\ pc' = "done"
    /\ UNCHANGED <<fn, constant, ty, ix, indices, x, y>>
    /\ UNCHANGED <<frames, content, tokens, lines, values, token_map, parsed>>

Next ==
    \/ CallGetStorageKey
    \/ CallAddToB256
    \/ CallSerializeToWords
    \/ CallSerializeToStorageInitializers

Spec == Init /\ [][Next]_vars

\* outcome of the call just made
Done(f) == pc = "done" /\ fn = f

----------------------------------------------------------------------------
(* Properties of the slot address arithmetic *)

\* the value of big-endian bytes modulo m
ValMod(bs, m) ==
    LET h[k \in 0..Len(bs)] == IF k = 0 THEN 0 ELSE (h[k - 1] * 256 + bs[k]) % m
    IN  h[Len(bs)]

Moduli == {251, 257, 65521}

\* 2^256 modulo m
TwoTo256Mod(m) == ValMod(<<1>> \o Repeat(0, 32), m)

\* a < b for big-endian byte strings of one length
BytesLess(a, b) ==
    \E k \in 1..Len(a) : a[k] < b[k] /\ \A j \in 1..(k - 1) : a[j] = b[j]

\* key + offset >= 2^256, i.e. 2^256 - 1 - key < offset
Exceeds256(k, off) ==
    BytesLess([i \in 1..32 |-> 255 - k[i]],
              [i \in 1..32 |-> IF i <= 24 THEN 0 ELSE be_byte(off, i - 24)])

\* C1: add_to_b256(key, offset) never panics; it returns the 32 big-endian
\* bytes of (key + offset) mod 2^256, also when key + offset >= 2^256.
C1_AddWrapsWithoutTrap ==
    Done("add_to_b256") =>
        /\ ret.st = "ok"
        /\ Len(ret.val) = 32
        /\ \A m \in Moduli :
              ValMod(ret.val, m) =
                 IF Exceeds256(x, y)
                 THEN (ValMod(x, m) + y + m - TwoTo256Mod(m)) % m
                 ELSE (ValMod(x, m) + y) % m

\* decimal digits of n < 1000, most significant first
Decimal(n) ==
    IF n < 10 THEN <<DigitChar(n)>>
    ELSE IF n < 100 THEN <<DigitChar(n \div 10), DigitChar(n % 10)>>
    ELSE <<DigitChar(n \div 100), DigitChar((n \div 10) % 10), DigitChar(n % 10)>>

\* "storage_" ++ ix ++ "_" ++ e1 ++ "_" ++ e2 ...
KeyPreimage(i, idx) ==
    STORAGE_DOMAIN_SEPARATOR \o Decimal(i)
        \o Flatten([k \in 1..Len(idx) |-> <<"_">> \o Decimal(idx[k])])

\* C10: get_storage_key(ix, path) is the hash of the domain separator, the
\* decimal state index and, for each path element in order, "_" and the
\* element; an empty path hashes the separator and the index alone.
C10_KeyIsHashOfPreimage ==
    Done("get_storage_key") =>
        /\ ret = Ok(Hash(KeyPreimage(ix, indices)))
        /\ indices = <<>> => ret.val = Hash(STORAGE_DOMAIN_SEPARATOR \o Decimal(ix))

\* the key of state index 11 at path [1, 10] is the hash of "storage_11_1_10"
C10_Witness ==
    /\ Done("get_storage_key")
    /\ ix = 11
    /\ indices = <<1, 10>>
    /\ ret.val = Hash(<<"s", "t", "o", "r", "a", "g", "e", "_", "1", "1", "_", "1",
                        "_", "1", "0">>)

----------------------------------------------------------------------------
(* Properties of the word encoder *)

CeilDiv(a, b) == (a + b - 1) \div b

StringCall(f) == Done(f) /\ ty.tag = "String" /\ constant.tag = "String"

\* C3: for a String-typed constant of any length L, serialize_to_words
\* succeeds and returns the bytes right-padded with zeros to the next multiple
\* of 32, as 8-byte words: 4 * ceil(L / 32) words.
C3_StringWordsPaddedTo32 ==
    StringCall("serialize_to_words") =>
        LET L == Len(constant.bytes)
        IN  /\ ret.st = "ok"
            /\ Len(ret.val) = 4 * CeilDiv(L, 32)
            /\ \A w \in 1..Len(ret.val) : Len(ret.val[w]) = 8
            /\ Flatten(ret.val) = constant.bytes \o Repeat(0, 32 * CeilDiv(L, 32) - L)

UnionCall(f) ==
    /\ Done(f)
    /\ ty.tag = "Union"
    /\ ir_type_size_in_bytes(constant.ty) <= ir_type_size_in_bytes(ty)

\* C7 as stated: for a Union type and a constant whose own type is no larger,
\* serialize_to_words returns exactly size(ty)/8 words: the zero words of the
\* size difference followed by the words of the constant at its own type.
C7_UnionAlwaysFullSize ==
    UnionCall("serialize_to_words") =>
        /\ ret.st = "ok"
        /\ Len(ret.val) = ir_type_size_in_bytes(ty) \div 8
        /\ ret.val =
              Repeat(ZeroWord, (ir_type_size_in_bytes(ty) \div 8)
                                 - (ir_type_size_in_bytes(constant.ty) \div 8))
                 \o serialize_to_words(constant, constant.ty).val

\* C7 amended: for a Union type and a constant that is not Undef, whose own
\* type is not a Union and is no larger than the union, serialize_to_words
\* faults exactly as the encoding of the constant at its own type faults, and
\* otherwise returns the zero words of the size difference followed by that
\* encoding: size(ty)/8 words whenever that encoding has size(c.ty)/8 words.
\* For an Undef constant the result is empty.
C7_UnionLeftPadded ==
    UnionCall("serialize_to_words") =>
        LET own == serialize_to_words(constant, constant.ty)
            pad == (ir_type_size_in_bytes(ty) \div 8)
                     - (ir_type_size_in_bytes(constant.ty) \div 8)
        IN  IF constant.tag = "Undef" THEN ret = Ok(<<>>)
            ELSE constant.ty.tag # "Union" =>
                    IF own.st # "ok" THEN ret = own
                    ELSE /\ ret.st = "ok"
                         /\ Len(ret.val) = pad + Len(own.val)
                         /\ \A k \in 1..pad : ret.val[k] = ZeroWord
                         /\ \A k \in 1..Len(own.val) : ret.val[pad + k] = own.val[k]
                         /\ Len(own.val) = ir_type_size_in_bytes(constant.ty) \div 8
                               => Len(ret.val) = ir_type_size_in_bytes(ty) \div 8

\* a one-word payload in a four-word union: three zero words, then the word
C7_Witness ==
    /\ UnionCall("serialize_to_words")
    /\ constant.tag = "Uint"
    /\ ty = TUnion(1)
    /\ ret = Ok(<<ZeroWord, ZeroWord, ZeroWord, to_be_bytes(constant.n)>>)

----------------------------------------------------------------------------
(* Properties of the storage initializer encoder *)

Values(inits) == Flatten([k \in 1..Len(inits) |-> inits[k].value])

\* C2: for a String-typed constant of L >= 1 bytes,
\* serialize_to_storage_initializers returns ceil(L / 32) initializers whose
\* values, chained in slot order, are the L bytes followed by zero bytes only.
C2_StringSlots ==
    StringCall("serialize_to_storage_initializers") /\ Len(constant.bytes) >= 1 =>
        LET L == Len(constant.bytes)
        IN  /\ ret.st = "ok"
            /\ Len(ret.val) = CeilDiv(L, 32)
            /\ Values(ret.val) = constant.bytes \o Repeat(0, 32 * CeilDiv(L, 32) - L)

PackedCall ==
    /\ Done("serialize_to_storage_initializers")
    /\ ty.tag \in {"Union", "String"}
    /\ constant.tag # "Undef"

\* the words of serialize_to_words right-padded to a multiple of 4 words
PaddedWords(c, t) ==
    LET w == serialize_to_words(c, t).val
    IN  w \o Repeat(ZeroWord, 4 * CeilDiv(Len(w), 4) - Len(w))

SlotCount(t) == CeilDiv(ir_type_size_in_bytes(t), 32)

\* C4: in the union/string case the padded word count is 4 * slot_count, the
\* call aborts when it is not, and no result drops words or leaves a slot of
\* the type without a value.
C4_WordsMatchSlots ==
    PackedCall /\ ret.st = "ok" =>
        /\ Len(PaddedWords(constant, ty)) = 4 * SlotCount(ty)
        /\ Len(ret.val) = SlotCount(ty)
        /\ 4 * Len(ret.val) = Len(PaddedWords(constant, ty))

\* C5: the n-th initializer (n = 0, 1, ...) of a union- or string-typed
\* constant has slot add_to_b256(get_storage_key(ix, path), n) and value the
\* n-th group of 4 words of the padded words of serialize_to_words.
C5_PackedSlotsAndValues ==
    PackedCall /\ ret.st = "ok" =>
        \A n \in 0..(Len(ret.val) - 1) :
            /\ add_to_b256(get_storage_key(ix, indices), n) = Ok(ret.val[n + 1].slot)
            /\ ret.val[n + 1].value =
                  SubSeq(Flatten(PaddedWords(constant, ty)), 32 * n + 1, 32 * n + 32)

\* a five-word struct in a 40-byte union: two consecutive slots
C5_Witness ==
    /\ PackedCall
    /\ ty = TUnion(5)
    /\ constant.tag = "Struct"
    /\ ret.st = "ok"
    /\ Len(ret.val) = 2
    /\ ret.val[2].slot = add_to_b256(ret.val[1].slot, 1).val
    /\ ret.val[2].value # ret.val[1].value

StructCall ==
    /\ Done("serialize_to_storage_initializers")
    /\ ty.tag = "Struct"
    /\ constant.tag = "Struct"

\* the outcomes of the fields of the struct at hand, each at path ++ [i]
FieldOutcomes ==
    LET tys == aggregates(ty.arg).tys
    IN  [k \in 1..Len(tys) |->
            serialize_to_storage_initializers(
                constant.elems[k], tys[k], ix, indices \o <<k - 1>>)]

\* C6: a struct at path p yields the results of its fields in declared order,
\* field i (its position in the declared list) encoded at path p ++ [i];
\* {a: bool, b: u64} yields two initializers, at get_storage_key(ix, p ++ [0])
\* and get_storage_key(ix, p ++ [1]); no slot is shared between fields.
C6_StructFieldsByPosition ==
    StructCall =>
        /\ ret.st = "ok" =>
              /\ \A k \in 1..Len(FieldOutcomes) : FieldOutcomes[k].st = "ok"
              /\ ret.val = Flatten([k \in 1..Len(FieldOutcomes) |->
                                        FieldOutcomes[k].val])
              /\ \A a, b \in 1..Len(ret.val) :
                    a # b => ret.val[a].slot # ret.val[b].slot
        /\ ret.st # "ok" => \E k \in 1..Len(FieldOutcomes) : FieldOutcomes[k] = ret
        /\ ty = TStruct(0) /\ constant.elems[1].tag = "Bool"
              /\ constant.elems[2].tag = "Uint" =>
              /\ ret.st = "ok"
              /\ Len(ret.val) = 2
              /\ ret.val[1].slot = get_storage_key(ix, indices \o <<0>>)
              /\ ret.val[2].slot = get_storage_key(ix, indices \o <<1>>)
        /\ ty = TStruct(0) /\ constant.elems[1].tag = "Undef"
              /\ constant.elems[2].tag = "Uint" =>
              /\ ret.st = "ok"
              /\ Len(ret.val) = 1
              /\ ret.val[1].slot = get_storage_key(ix, indices \o <<1>>)

\* {a: bool, b: u64} at the empty path: slots of paths [0] and [1]
C6_Witness ==
    /\ StructCall
    /\ ty = TStruct(0)
    /\ indices = <<>>
    /\ constant.elems[1].tag = "Bool"
    /\ Len(ret.val) = 2
    /\ ret.val[1].slot = get_storage_key(ix, <<0>>)
    /\ ret.val[2].slot = get_storage_key(ix, <<1>>)

EncodeCall ==
    Done("serialize_to_words") \/ Done("serialize_to_storage_initializers")

\* C8 as stated: a call given an array type always ends in the
\* unsupported-shape fault and never returns a result.
C8_ArrayTypeAlwaysFaults ==
    EncodeCall /\ ty.tag = "Array" => ret.st = "unimplemented"

\* an array-valued constant is reached at an array type: at top level, as a
\* struct field, or as the payload of a union
RECURSIVE ReachesArray(_, _)
ReachesArray(c, t) ==
    \/ c.tag = "Array" /\ t.tag = "Array"
    \/ /\ c.tag = "Struct" /\ t.tag = "Struct"
       /\ \E k \in 1..Min(Len(c.elems), Len(aggregates(t.arg).tys)) :
             ReachesArray(c.elems[k], aggregates(t.arg).tys[k])
    \/ /\ c.tag # "Undef" /\ t.tag = "Union" /\ c.ty.tag # "Union"
       /\ ReachesArray(c, c.ty)

\* C8 amended: encoding an array-valued constant at an array type (at top
\* level, as a struct field or as a union payload) never returns a result; at
\* top level the fault is the unsupported-shape fault.  An Undef constant
\* given an array type returns the empty result.
C8_ArrayConstantFaults ==
    EncodeCall =>
        /\ ReachesArray(constant, ty) => ret.st # "ok"
        /\ ty.tag = "Array" /\ constant.tag = "Array" => ret = Panic("unimplemented")
        /\ ty.tag = "Array" /\ constant.tag = "Undef" => ret = Ok(<<>>)

\* an array constant at an array type, handed to serialize_to_storage_initializers
C8_Witness ==
    /\ Done("serialize_to_storage_initializers")
    /\ ty.tag = "Array"
    /\ constant.tag = "Array"
    /\ ret.st = "unimplemented"

\* C9: an Undef constant of any type yields an empty initializer sequence and
\* an empty word sequence, without fault.
C9_UndefIsEmpty ==
    EncodeCall /\ constant.tag = "Undef" => ret = Ok(<<>>)

\* an Undef constant at a union type, handed to serialize_to_words
C9_Witness ==
    /\ Done("serialize_to_words")
    /\ constant.tag = "Undef"
    /\ ty.tag = "Union"
    /\ ret = Ok(<<>>)

----------------------------------------------------------------------------
(* Further properties of the slot address arithmetic *)

\* C11: two distinct (state index, path) pairs, paths of different lengths
\* and multi-digit elements included, have different keys: the key of the
\* call differs from the key of every other pair.
C11_DistinctPairsDistinctKeys ==
    Done("get_storage_key") =>
        \A i \in StateIndexes, p \in Paths :
            <<i, p>> # <<ix, indices>> => get_storage_key(i, p) # ret.val

\* index 1 at path [1, 0]: neither the key of path [10] nor of index 11 at [0]
C11_Witness ==
    /\ Done("get_storage_key")
    /\ ix = 1
    /\ indices = <<1, 0>>
    /\ ret.val # get_storage_key(1, <<10>>)
    /\ ret.val # get_storage_key(11, <<0>>)
    /\ ret.val # get_storage_key(1, <<1>>)

\* C15: add_to_b256(add_to_b256(k, a), b) = add_to_b256(k, a + b) whenever
\* k + a + b < 2^256 (a + b fits the offset type).
C15_OffsetsAdd ==
    Done("add_to_b256") =>
        \A b \in Offsets :
            ~Exceeds256(x, y + b) =>
                /\ ret.st = "ok"
                /\ add_to_b256(ret.val, b).st = "ok"
                /\ add_to_b256(ret.val, b) = add_to_b256(x, y + b)

\* 0x00..00FFFF plus 255, then plus 1 more: the carry runs through two bytes
C15_Witness ==
    /\ Done("add_to_b256")
    /\ x = [i \in 1..32 |-> IF i >= 31 THEN 255 ELSE 0]
    /\ y = 255
    /\ ret.st = "ok"
    /\ add_to_b256(ret.val, 1) = add_to_b256(x, 256)
    /\ add_to_b256(x, 256).val = [i \in 1..32 |-> IF i = 30 THEN 1
                                                  ELSE IF i = 31 THEN 0
                                                  ELSE IF i = 32 THEN 255 ELSE 0]

----------------------------------------------------------------------------
(* Further properties of the encoders *)

ScalarCall ==
    /\ Done("serialize_to_storage_initializers")
    /\ ty.tag = constant.tag
    /\ ty.tag \in {"Unit", "Bool", "Uint", "B256"}

\* C12: a matching unit, boolean, unsigned or 256-bit constant yields exactly
\* one initializer, at get_storage_key(ix, path), whose value is the words of
\* serialize_to_words chained and left-padded with zero bytes to 32 bytes
\* (24 zero bytes for unit/bool/uint, none for B256).
C12_ScalarSlotIsPaddedWords ==
    ScalarCall =>
        LET words == serialize_to_words(constant, ty)
            bytes == Flatten(words.val)
        IN  /\ words.st = "ok"
            /\ Len(bytes) = IF ty.tag = "B256" THEN 32 ELSE 8
            /\ ret.st = "ok"
            /\ Len(ret.val) = 1
            /\ ret.val[1].slot = get_storage_key(ix, indices)
            /\ ret.val[1].value = Repeat(0, 32 - Len(bytes)) \o bytes

\* an unsigned constant at path [10, 0]
C12_Witness ==
    /\ ScalarCall
    /\ ty.tag = "Uint"
    /\ constant.n = 258
    /\ indices = <<10, 0>>
    /\ Len(ret.val) = 1
    /\ ret.val[1].value = Repeat(0, 30) \o <<1, 2>>

\* C13: the slot value of a boolean is 31 zero bytes and 0x01 for true, 32
\* zero bytes for false; the slot value of an unsigned n of any declared
\* width is 24 zero bytes and the 8 big-endian bytes of n.
C13_BoolAndUintSlotValues ==
    Done("serialize_to_storage_initializers") =>
        /\ ty.tag = "Bool" /\ constant.tag = "Bool" =>
              /\ ret.st = "ok" /\ Len(ret.val) = 1
              /\ Len(ret.val[1].value) = 32
              /\ \A k \in 1..31 : ret.val[1].value[k] = 0
              /\ ret.val[1].value[32] = IF constant.b THEN 1 ELSE 0
        /\ ty.tag = "Uint" /\ constant.tag = "Uint" =>
              /\ ret.st = "ok" /\ Len(ret.val) = 1
              /\ Len(ret.val[1].value) = 32
              /\ \A k \in 1..28 : ret.val[1].value[k] = 0
              /\ \A k \in 29..32 : ret.val[1].value[k] \in 0..255
              /\ constant.n = ret.val[1].value[29] * 16777216
                                + ret.val[1].value[30] * 65536
                                + ret.val[1].value[31] * 256
                                + ret.val[1].value[32]

\* the boolean true: the last byte of the slot is 1
C13_Witness ==
    /\ Done("serialize_to_storage_initializers")
    /\ ty.tag = "Bool"
    /\ constant.tag = "Bool"
    /\ constant.b
    /\ ret.val[1].value = Repeat(0, 31) \o <<1>>

OversizedCall ==
    /\ EncodeCall
    /\ ty.tag = "Union"
    /\ ir_type_size_in_bytes(constant.ty) \div 8 > ir_type_size_in_bytes(ty) \div 8

\* C14 as stated: a Union-typed value with a constant whose own type has more
\* words than the union always aborts with the assertion failure.
C14_OversizedAlwaysAborts ==
    OversizedCall => ret = Panic("assert")

\* C14 amended: a Union-typed value with a constant that is not Undef and
\* whose own type has more words than the union aborts with the assertion
\* failure in both encoders; an Undef constant of such a type yields the
\* empty result without the sizes being compared.
C14_OversizedDefinedAborts ==
    OversizedCall =>
        IF constant.tag = "Undef" THEN ret = Ok(<<>>) ELSE ret = Panic("assert")

\* a 256-bit constant in a one-word union
C14_Witness ==
    /\ OversizedCall
    /\ constant.tag = "B256"
    /\ ret = Panic("assert")

\* a (type, constant) pair with no arm of its own: a constant that is not
\* Undef, of another tag than the type, at a type that is not a Union
UnmatchedCall ==
    /\ EncodeCall
    /\ constant.tag # "Undef"
    /\ ty.tag # "Union"
    /\ constant.tag # ty.tag

\* C16: for a (type, constant-tag) combination not otherwise enumerated both
\* encoders return an empty result rather than failing.
C16_UnmatchedIsEmpty ==
    UnmatchedCall => ret = Ok(<<>>)

\* a boolean constant at an array type
C16_Witness ==
    /\ Done("serialize_to_storage_initializers")
    /\ UnmatchedCall
    /\ ty.tag = "Array"
    /\ constant.tag = "Bool"
    /\ ret = Ok(<<>>)

----------------------------------------------------------------------------
(* The calls the encoders make of themselves, one call per step *)

Frame(f, c, t, d) == [f |-> f, c |-> c, t |-> t, d |-> d]

\* the panic a call of serialize_to_words ends in before calling itself,
\* "ok" when there is none
words_fault(c, t) ==
    LET arm == words_arm(t, c)
    IN  CASE arm = "Array" -> "unimplemented"
          [] arm = "String" -> string_to_words(c.bytes).st
          [] arm = "Struct" /\ aggregates(t.arg).kind # "FieldTypes" -> "unreachable"
          [] arm = "Union"
               /\ ~size_assertion(ir_type_size_in_bytes(t) \div 8,
                                  ir_type_size_in_bytes(c.ty) \div 8) -> "assert"
          [] OTHER -> "ok"

\* the calls of serialize_to_words that serialize_to_words(c, t) makes
words_calls(c, t, d) ==
    LET arm == words_arm(t, c)
    IN  CASE arm = "Struct" ->
                LET tys == aggregates(t.arg).tys
                    n == Min(Len(c.elems), Len(tys))
                IN  [k \in 1..n |->
                        Frame("serialize_to_words", c.elems[k], tys[k], d + 1)]
          [] arm = "Union" -> <<Frame("serialize_to_words", c, c.ty, d + 1)>>
          [] OTHER -> <<>>

initializers_fault(c, t) ==
    LET arm == initializers_arm(t, c)
    IN  CASE arm = "Array" -> "unimplemented"
          [] arm = "Struct" /\ aggregates(t.arg).kind # "FieldTypes" -> "unreachable"
          [] OTHER -> "ok"

\* the calls that serialize_to_storage_initializers(c, t, ..) makes
initializers_calls(c, t, d) ==
    LET arm == initializers_arm(t, c)
    IN  CASE arm = "Struct" ->
                LET tys == aggregates(t.arg).tys
                    n == Min(Len(c.elems), Len(tys))
                IN  [k \in 1..n |->
                        Frame("serialize_to_storage_initializers",
                              c.elems[k], tys[k], d + 1)]
          [] arm = "UnionOrString" -> <<Frame("serialize_to_words", c, t, d + 1)>>
          [] OTHER -> <<>>

frame_fault(fr) ==
    IF fr.f = "serialize_to_words" THEN words_fault(fr.c, fr.t)
    ELSE initializers_fault(fr.c, fr.t)

frame_calls(fr) ==
    IF fr.f = "serialize_to_words" THEN words_calls(fr.c, fr.t, fr.d)
    ELSE initializers_calls(fr.c, fr.t, fr.d)

InitCalls ==
    /\ pc = "run"
    /\ fn \in {"serialize_to_words", "serialize_to_storage_initializers"}
    /\ \E k \in 1..Len(SerInputs) :
          constant = SerInputs[k].c /\ ty = SerInputs[k].t
    /\ ix = 0 /\ indices = <<>> /\ x = FillBytes32(0, 0) /\ y = 0
    /\ ret = Ok(<<>>)
    /\ frames = <<Frame(fn, constant, ty, 0)>>
    /\ NoDocument

\* the pending call is entered and the calls it makes become pending
EnterCall ==
    /\ pc = "run" /\ frames # <<>>
    /\ frame_fault(Head(frames)) = "ok"
    /\ Head(frames).d < MaxCallDepth
    /\ frames' = frame_calls(Head(frames)) \o Tail(frames)
    /\ UNCHANGED <<pc, fn, constant, ty, ix, indices, x, y, ret>>
    /\ UNCHANGED <<content, tokens, lines, values, token_map, parsed>>

\* the pending call panics: the whole evaluation is abandoned
PanicCall ==
    /\ pc = "run" /\ frames # <<>>
    /\ frame_fault(Head(frames)) # "ok"
    /\ frames' = <<>>
    /\ ret' = Panic(frame_fault(Head(frames)))
    /\ pc' = "done"
    /\ UNCHANGED <<fn, constant, ty, ix, indices, x, y>>
    /\ UNCHANGED <<content, tokens, lines, values, token_map, parsed>>

\* no call is pending: the outermost call returns
ReturnCall ==
    /\ pc = "run" /\ frames = <<>>
    /\ ret' = IF fn = "serialize_to_words" THEN serialize_to_words(constant, ty)
              ELSE serialize_to_storage_initializers(constant, ty, ix, indices)
    /\ pc' = "done"
    /\ UNCHANGED <<fn, constant, ty, ix, indices, x, y, frames>>
    /\ UNCHANGED <<content, tokens, lines, values, token_map, parsed>>

NextCalls ==
    \/ EnterCall
    \/ PanicCall
    \/ ReturnCall

SpecCalls == InitCalls /\ [][NextCalls]_vars

\* nesting depth of a type: 0 for a type without parts
RECURSIVE type_nesting(_)
type_nesting(t) ==
    IF t.tag \in {"Array", "Struct", "Union"}
    THEN LET tys == aggregates(t.arg).tys
             max[k \in 0..Len(tys)] ==
                 IF k = 0 THEN 0
                 ELSE LET n == type_nesting(tys[k])
                      IN  IF n > max[k - 1] THEN n ELSE max[k - 1]
         IN  1 + max[Len(tys)]
    ELSE 0

\* C17: the encoders terminate on every input: the depth of the calls they
\* make of themselves is bounded by the nesting depth of the constant's type
\* (one more call for the words of a union or string), also when the own
\* type of a constant at a union is itself a Union.
C17_CallDepthBounded ==
    \A k \in 1..Len(frames) :
        frames[k].d <= Max2(type_nesting(ty), type_nesting(constant.ty)) + 1

----------------------------------------------------------------------------
(* TextDocument: the token list and its two indexes *)

\* a Token, as far as store_tokens reads it
Token(line_start, name) == [line_start |-> line_start, name |-> name]

TokenLines == {0, 1}

TokenNames == {"a", "b"}

Tokens == {Token(l, n) : l \in TokenLines, n \in TokenNames}

\* a text is told by what parse_tokens_from_text makes of it: the tokens of
\* a program, or diagnostics only
Texts ==
    {[ok |-> FALSE, tokens |-> <<>>]}
        \cup UNION {{[ok |-> TRUE, tokens |-> ts] : ts \in [1..n -> Tokens]} :
                        n \in 0..MaxTokens}

\* match map.get_mut(&key) { Some(v) => v.push(index),
\*                           None => map.insert(key, vec![index]) }
push_index(map, key, index) ==
    IF key \in DOMAIN map THEN [map EXCEPT ![key] = Append(@, index)]
    ELSE [k \in DOMAIN map \cup {key} |-> IF k = key THEN <<index>> ELSE map[k]]

\* the body of the loop of store_tokens for the token of (0-based) index
store_token(doc, token, index) ==
    [tokens |-> Append(doc.tokens, token),
     lines |-> push_index(doc.lines, token.line_start, index),
     values |-> push_index(doc.values, token.name, index),
     token_map |-> doc.token_map]

RECURSIVE store_from(_, _, _)
store_from(doc, toks, index) ==
    IF index >= Len(toks) THEN doc
    ELSE store_from(store_token(doc, toks[index + 1], index), toks, index + 1)

store_tokens(doc, toks) == store_from([doc EXCEPT !.tokens = <<>>], toks, 0)

\* clear_hash_maps with `lines` left as it was
clear_hash_maps_but_lines(doc) ==
    [doc EXCEPT !.values = EmptyMap, !.token_map = {}]

clear_hash_maps(doc) ==
    [doc EXCEPT !.lines = EmptyMap, !.values = EmptyMap, !.token_map = {}]

clear_tokens(doc) == [doc EXCEPT !.tokens = <<>>]

\* TextDocument::build_from_path
InitDocument ==
    /\ content \in Texts
    /\ tokens = <<>>
    /\ lines = EmptyMap
    /\ values = EmptyMap
    /\ token_map = {}
    /\ parsed = "none"
    /\ pc = "document" /\ fn = "TextDocument"
    /\ constant = NoConstant /\ ty = TUnit /\ ix = 0 /\ indices = <<>>
    /\ x = FillBytes32(0, 0) /\ y = 0 /\ ret = Ok(<<>>) /\ frames = <<>>

\* TextDocument::parse
Parse ==
    LET self == [tokens |-> tokens, lines |-> lines, values |-> values,
                 token_map |-> token_map]
        cleared == clear_hash_maps(clear_tokens(self))
        doc == IF content.ok THEN store_tokens(cleared, content.tokens) ELSE cleared
    IN  /\ tokens' = doc.tokens
        /\ lines' = doc.lines
        /\ values' = doc.values
        /\ token_map' = doc.token_map
        /\ parsed' = IF content.ok THEN "ok" ELSE "failed"
        /\ UNCHANGED content
        /\ UNCHANGED <<pc, fn, constant, ty, ix, indices, x, y, ret, frames>>

\* TextDocument::apply_change: the text becomes another text
ApplyChange ==
    /\ content' \in Texts
    /\ UNCHANGED <<tokens, lines, values, token_map, parsed>>
    /\ UNCHANGED <<pc, fn, constant, ty, ix, indices, x, y, ret, frames>>

\* TextDocument::test_typed_parse: the identifiers of the typed program, when
\* there is one, are added to token_map
TestTypedParse ==
    /\ token_map' =
          IF content.ok
          THEN token_map \cup {content.tokens[k].name : k \in 1..Len(content.tokens)}
          ELSE token_map
    /\ UNCHANGED <<content, tokens, lines, values, parsed>>
    /\ UNCHANGED <<pc, fn, constant, ty, ix, indices, x, y, ret, frames>>

NextDocument ==
    \/ Parse
    \/ ApplyChange
    \/ TestTypedParse

SpecDocument == InitDocument /\ [][NextDocument]_vars

\* how many times index i is in the list of indexes v
Occurrences(v, i) == Cardinality({k \in 1..Len(v) : v[k] = i})

\* every index stored in the map is an index of the token list
IndexesInRange(map) ==
    \A key \in DOMAIN map : \A k \in 1..Len(map[key]) :
        map[key][k] \in 0..(Len(tokens) - 1)

\* index i is once under `key` and under no other key of the map
IndexedOnceUnder(map, key, i) ==
    /\ key \in DOMAIN map
    /\ \A other \in DOMAIN map :
          Occurrences(map[other], i) = IF other = key THEN 1 ELSE 0

\* C18: after any sequence of parse() calls the indexes agree with the
\* token list: every stored index is below tokens.len(), each token index is
\* exactly once in lines[line_start] and in values[name] and nowhere else,
\* and a failed parse leaves tokens, lines and values empty.
C18_TokenIndexesConsistent ==
    /\ IndexesInRange(lines)
    /\ IndexesInRange(values)
    /\ \A i \in 0..(Len(tokens) - 1) :
          /\ IndexedOnceUnder(lines, tokens[i + 1].line_start, i)
          /\ IndexedOnceUnder(values, tokens[i + 1].name, i)
    /\ parsed = "failed" =>
          tokens = <<>> /\ DOMAIN lines = {} /\ DOMAIN values = {}

\* two tokens of one line and two names, parsed into the indexes
C18_Witness ==
    /\ parsed = "ok"
    /\ Len(tokens) = 2
    /\ tokens[1] = Token(1, "a")
    /\ tokens[2] = Token(1, "b")
    /\ DOMAIN lines = {1}
    /\ lines[1] = <<0, 1>>
    /\ values["a"] = <<0>>
    /\ values["b"] = <<1>>

====
